---- MODULE Spec2Model ----
(***************************************************************************)
(* Model of app.py, the FRED CPI dashboard: the URL state codec            *)
(* (get_url_params / generate_share_url), the widget defaults, the fetch   *)
(* loop, the chart builder (create_plot) and the change calculator         *)
(* (calculate_yoy_change).                                                 *)
(*                                                                         *)
(* Strings are sequences of one-character strings, so that formatting,     *)
(* URL quoting and parsing are computed character by character.  An        *)
(* optional value (Python's None or a value) is <<>> or <<value>>.         *)
(***************************************************************************)
EXTENDS Integers, Sequences, FiniteSets, TLC

VARIABLES pc, fred_api_key, today, query_params, url_params, start_date,
          end_date, selected_series, view_type, share_url, fetch_i,
          fetch_log, df_dict, fig, raw_table, df, yoy, error

vars == <<pc, fred_api_key, today, query_params, url_params, start_date,
          end_date, selected_series, view_type, share_url, fetch_i,
          fetch_log, df_dict, fig, raw_table, df, yoy, error>>

None == <<>>
Some(x) == <<x>>

(***************************************************************************)
(* Bounds of the model.                                                    *)
(***************************************************************************)
\* longest list of values of the repeated 'series' query parameter
MaxSeriesParams == 2
\* longest selection a user makes in the multiselect / a ViewState holds
MaxSel == 2
\* number of catalog entries a user picks from in the render cycle
MaxPool == 3
\* longest mapping handed to create_plot in the chart harness
MaxKeys == 10
\* longest observation sequence handed to calculate_yoy_change
MaxObs == 14

(***************************************************************************)
(* Generic helpers on sequences.                                           *)
(***************************************************************************)
Range(s) == {s[i] : i \in 1..Len(s)}

IsInjective(s) == \A i, j \in 1..Len(s) : s[i] = s[j] => i = j

\* the concatenation of ss[lo..hi], by halves
RECURSIVE FlattenRange(_, _, _)
FlattenRange(ss, lo, hi) ==
    IF lo > hi THEN <<>>
    ELSE IF lo = hi THEN ss[lo]
    ELSE LET mid == (lo + hi) \div 2
         IN FlattenRange(ss, lo, mid) \o FlattenRange(ss, mid + 1, hi)

Flatten(ss) == FlattenRange(ss, 1, Len(ss))

\* str.join: the parts with sep between them
RECURSIVE Join(_, _)
Join(parts, sep) ==
    IF parts = <<>> THEN <<>>
    ELSE IF Len(parts) = 1 THEN parts[1]
    ELSE parts[1] \o sep \o Join(Tail(parts), sep)

\* the sequences over S of length at most n
SeqUpTo(S, n) == UNION {[1..k -> S] : k \in 0..n}

InjSeqUpTo(S, n) == {s \in SeqUpTo(S, n) : IsInjective(s)}

(***************************************************************************)
(* Program constants.                                                      *)
(***************************************************************************)
AllItems == <<"A","l","l"," ","I","t","e","m","s">>
AllItemsLessFoodAndEnergy == <<"A","l","l"," ","I","t","e","m","s"," ","L","e","s","s"," ","F","o","o","d"," ","a","n","d"," ","E","n","e","r","g","y">>
FoodAndBeverages == <<"F","o","o","d"," ","a","n","d"," ","B","e","v","e","r","a","g","e","s">>
Housing == <<"H","o","u","s","i","n","g">>
Transportation == <<"T","r","a","n","s","p","o","r","t","a","t","i","o","n">>
MedicalCare == <<"M","e","d","i","c","a","l"," ","C","a","r","e">>
Recreation == <<"R","e","c","r","e","a","t","i","o","n">>
EducationAndCommunication == <<"E","d","u","c","a","t","i","o","n"," ","a","n","d"," ","C","o","m","m","u","n","i","c","a","t","i","o","n">>
OtherGoodsAndServices == <<"O","t","h","e","r"," ","G","o","o","d","s"," ","a","n","d"," ","S","e","r","v","i","c","e","s">>

\* CPI_SERIES.keys(), in the dict's insertion order
CPI_SERIES_keys ==
    <<AllItems, AllItemsLessFoodAndEnergy, FoodAndBeverages, Housing,
      Transportation, MedicalCare, Recreation, EducationAndCommunication,
      OtherGoodsAndServices>>

\* CPI_SERIES.values(), aligned with CPI_SERIES_keys
CPI_SERIES_ids ==
    <<"CPIAUCSL", "CPILFESL", "CPIFABSL", "CPIHOSSL", "CPITRNSL",
      "CPIMEDSL", "CPIRECSL", "CPIEDUSL", "CPIOGSSL">>

InCatalog(name) == name \in Range(CPI_SERIES_keys)

\* CPI_SERIES[name]
CPI_SERIES(name) ==
    CPI_SERIES_ids[CHOOSE i \in 1..Len(CPI_SERIES_keys) : CPI_SERIES_keys[i] = name]

COLOR_PALETTE ==
    <<"#1f77b4", "#ff7f0e", "#2ca02c", "#d62728", "#9467bd", "#8c564b",
      "#e377c2", "#7f7f7f", "#bcbd22">>

IndexValues == <<"I","n","d","e","x"," ","V","a","l","u","e","s">>
YearOverYearChanges == <<"Y","e","a","r","-","o","v","e","r","-","Y","e","a","r"," ","C","h","a","n","g","e","s">>
Both == <<"B","o","t","h">>

\* the three labels of the radio widget and of get_url_params' validation
VIEW_TYPES == <<IndexValues, YearOverYearChanges, Both>>

\* the fallback selection of get_url_params
DEFAULT_SERIES == <<AllItems, AllItemsLessFoodAndEnergy>>

K_start_date == <<"s","t","a","r","t","_","d","a","t","e">>
K_end_date == <<"e","n","d","_","d","a","t","e">>
K_series == <<"s","e","r","i","e","s">>
K_view_type == <<"v","i","e","w","_","t","y","p","e">>

(***************************************************************************)
(* Calendar dates: [y, m, d].                                              *)
(***************************************************************************)
MkDate(y, m, d) == [y |-> y, m |-> m, d |-> d]

IsLeap(y) == (y % 4 = 0) /\ ((y % 100 # 0) \/ (y % 400 = 0))

DaysInMonth(y, m) ==
    IF m = 2 THEN (IF IsLeap(y) THEN 29 ELSE 28)
    ELSE IF m \in {4, 6, 9, 11} THEN 30 ELSE 31

\* days of the months before month m of year y
RECURSIVE DaysBeforeMonth(_, _)
DaysBeforeMonth(y, m) ==
    IF m = 1 THEN 0 ELSE DaysBeforeMonth(y, m - 1) + DaysInMonth(y, m - 1)

\* days of the years before year y
DaysBeforeYear(y) ==
    (y - 1) * 365 + ((y - 1) \div 4) - ((y - 1) \div 100) + ((y - 1) \div 400)

\* date.toordinal(): 0001-01-01 is day 1
ToOrdinal(dt) == DaysBeforeYear(dt.y) + DaysBeforeMonth(dt.y, dt.m) + dt.d

\* date.fromordinal()
FromOrdinal(n) ==
    LET y == CHOOSE yy \in (n \div 366)..((n \div 365) + 1) :
                 DaysBeforeYear(yy) < n /\ n <= DaysBeforeYear(yy + 1)
        r == n - DaysBeforeYear(y)
        m == CHOOSE mm \in 1..12 :
                 DaysBeforeMonth(y, mm) < r
                 /\ r <= DaysBeforeMonth(y, mm) + DaysInMonth(y, mm)
    IN MkDate(y, m, r - DaysBeforeMonth(y, m))

\* dt - timedelta(days=n)
MinusDays(dt, n) == FromOrdinal(ToOrdinal(dt) - n)

DateLT(a, b) ==
    \/ a.y < b.y
    \/ a.y = b.y /\ a.m < b.m
    \/ a.y = b.y /\ a.m = b.m /\ a.d < b.d

DateLE(a, b) == a = b \/ DateLT(a, b)

(***************************************************************************)
(* Characters, strftime and strptime for the format '%Y-%m-%d'.            *)
(***************************************************************************)
DigitChars == <<"0", "1", "2", "3", "4", "5", "6", "7", "8", "9">>

Digits == Range(DigitChars)

DigitVal(c) == (CHOOSE i \in 1..10 : DigitChars[i] = c) - 1

DigitChar(n) == DigitChars[n + 1]

\* n written with two digits, zero padded (%m, %d)
Pad2(n) == <<DigitChar((n \div 10) % 10), DigitChar(n % 10)>>

\* n written with four digits, zero padded (%Y for years 1000..9999)
Pad4(n) ==
    <<DigitChar((n \div 1000) % 10), DigitChar((n \div 100) % 10),
      DigitChar((n \div 10) % 10), DigitChar(n % 10)>>

\* dt.strftime('%Y-%m-%d')
Strftime(dt) == Pad4(dt.y) \o <<"-">> \o Pad2(dt.m) \o <<"-">> \o Pad2(dt.d)

At(s, i) == IF i >= 1 /\ i <= Len(s) THEN s[i] ELSE "<end>"

NonZeroDigits == Digits \ {"0"}

\* length of the text %m matches at position p when "-" must follow it:
\* 1[0-2] | 0[1-9] | [1-9], 0 when none does
MonthLen(s, p) ==
    IF /\ \/ At(s, p) = "1" /\ At(s, p + 1) \in {"0", "1", "2"}
          \/ At(s, p) = "0" /\ At(s, p + 1) \in NonZeroDigits
       /\ At(s, p + 2) = "-"
    THEN 2
    ELSE IF At(s, p) \in NonZeroDigits /\ At(s, p + 1) = "-" THEN 1
    ELSE 0

\* length of the text %d matches at position q, the first alternative of
\* 3[0-1] | [1-2]\d | 0[1-9] | [1-9] | ' '[1-9] that matches, 0 when none does
DayLen(s, q) ==
    IF At(s, q) = "3" /\ At(s, q + 1) \in {"0", "1"} THEN 2
    ELSE IF At(s, q) \in {"1", "2"} /\ At(s, q + 1) \in Digits THEN 2
    ELSE IF At(s, q) = "0" /\ At(s, q + 1) \in NonZeroDigits THEN 2
    ELSE IF At(s, q) \in NonZeroDigits THEN 1
    ELSE IF At(s, q) = " " /\ At(s, q + 1) \in NonZeroDigits THEN 2
    ELSE 0

\* the digits of s[p..p+n-1] as a number; a leading space counts as nothing
RECURSIVE NumAt(_, _, _)
NumAt(s, p, n) ==
    IF n = 0 THEN 0
    ELSE LET c == s[p + n - 1]
         IN (IF c \in Digits THEN DigitVal(c) ELSE 0)
            + (IF n = 1 THEN 0 ELSE 10 * NumAt(s, p, n - 1))

\* datetime.strptime(s, '%Y-%m-%d'): Some(date), or None for ValueError
Strptime(s) ==
    IF ~(/\ Len(s) >= 5
         /\ \A i \in 1..4 : s[i] \in Digits
         /\ s[5] = "-")
    THEN None
    ELSE LET ml == MonthLen(s, 6)
             q  == 6 + ml + 1
             dl == DayLen(s, q)
         IN IF ml = 0 \/ dl = 0 \/ q + dl - 1 # Len(s) THEN None
            ELSE LET y == NumAt(s, 1, 4)
                     m == NumAt(s, 6, ml)
                     d == NumAt(s, q, dl)
                 IN IF y >= 1 /\ d <= DaysInMonth(y, m)
                    THEN Some(MkDate(y, m, d))
                    ELSE None

(***************************************************************************)
(* urllib.parse: quote_plus, urlencode(doseq=True), unquote_plus, parse_qs *)
(***************************************************************************)
\* the reserved characters of the model's alphabet and their %XX codes
PctCode ==
    ("+" :> <<"2","B">>) @@ ("%" :> <<"2","5">>) @@ ("&" :> <<"2","6">>)
    @@ ("=" :> <<"3","D">>) @@ ("(" :> <<"2","8">>) @@ (")" :> <<"2","9">>)
    @@ ("?" :> <<"3","F">>)

QuoteChar(c) ==
    IF c = " " THEN <<"+">>
    ELSE IF c \in DOMAIN PctCode THEN <<"%">> \o PctCode[c]
    ELSE <<c>>

\* urllib.parse.quote_plus(s)
QuotePlus(s) == Flatten([i \in 1..Len(s) |-> QuoteChar(s[i])])

\* one 'key=value' of urlencode
Pair(k, v) == QuotePlus(k) \o <<"=">> \o QuotePlus(v)

\* urllib.parse.urlencode(params, doseq=True) for params, a sequence of
\* [key, values]: a str value gives one pair, a list value one pair per element
RECURSIVE PairsOf(_, _)
PairsOf(k, vs) ==
    IF vs = <<>> THEN <<>> ELSE <<Pair(k, Head(vs))>> \o PairsOf(k, Tail(vs))

RECURSIVE AllPairs(_)
AllPairs(params) ==
    IF params = <<>> THEN <<>>
    ELSE PairsOf(Head(params).key, Head(params).values) \o AllPairs(Tail(params))

\* urlencode that keeps only the first element of a list value
UrlencodeFirstOnly(params) ==
    Join(AllPairs([i \in 1..Len(params) |->
                     [key |-> params[i].key,
                      values |-> IF params[i].values = <<>> THEN <<>>
                                 ELSE <<params[i].values[1]>>]]), <<"&">>)

Urlencode(params) == Join(AllPairs(params), <<"&">>)

\* s.replace('+', ' ')
ReplacePlus(s) == [i \in 1..Len(s) |-> IF s[i] = "+" THEN " " ELSE s[i]]

\* whether a %XX escape starts at position i of s (the two characters of a
\* code are hex digits, so no escape starts inside another)
EscapeAt(s, i) ==
    /\ i >= 1 /\ i + 2 <= Len(s)
    /\ s[i] = "%"
    /\ \E c \in DOMAIN PctCode : PctCode[c] = <<s[i + 1], s[i + 2]>>

\* urllib.parse.unquote: %XX becomes its character, anything else stays
Unquote(s) ==
    Flatten([i \in 1..Len(s) |->
                IF EscapeAt(s, i)
                THEN <<CHOOSE c \in DOMAIN PctCode : PctCode[c] = <<s[i + 1], s[i + 2]>> >>
                ELSE IF EscapeAt(s, i - 1) \/ EscapeAt(s, i - 2) THEN <<>>
                ELSE <<s[i]>>])

\* urllib.parse.unquote_plus(s)
UnquotePlus(s) == Unquote(ReplacePlus(s))

\* s.split(sep) for a one-character separator
Split(s, sep) ==
    LET cuts   == {i \in 1..Len(s) : s[i] = sep}
        \* the position of the k-th separator; the end of s stands for the last
        cut(k) == IF k = 0 THEN 0
                  ELSE IF k > Cardinality(cuts) THEN Len(s) + 1
                  ELSE CHOOSE i \in cuts : Cardinality({j \in cuts : j < i}) = k - 1
    IN [k \in 1..(Cardinality(cuts) + 1) |-> SubSeq(s, cut(k - 1) + 1, cut(k) - 1)]

\* position of the first c in s, 0 when there is none
FindFrom(s, c, i) ==
    LET at == {j \in i..Len(s) : s[j] = c}
    IN IF at = {} THEN 0 ELSE CHOOSE j \in at : \A k \in at : j <= k

\* one name=value field of a query string, unquoted (blank values kept)
ParseField(f) ==
    LET e == FindFrom(f, "=", 1)
    IN IF e = 0 THEN [key |-> UnquotePlus(f), value |-> <<>>]
       ELSE [key   |-> UnquotePlus(SubSeq(f, 1, e - 1)),
             value |-> UnquotePlus(SubSeq(f, e + 1, Len(f)))]

\* urllib.parse.parse_qsl(qs, keep_blank_values=True): empty fields are skipped
RECURSIVE ParseFields(_)
ParseFields(fs) ==
    IF fs = <<>> THEN <<>>
    ELSE (IF Head(fs) = <<>> THEN <<>> ELSE <<ParseField(Head(fs))>>)
         \o ParseFields(Tail(fs))

ParseQsl(qs) == ParseFields(Split(qs, "&"))

\* the values of key k among the parsed fields, in order
RECURSIVE ValuesOf(_, _)
ValuesOf(fields, k) ==
    IF fields = <<>> THEN <<>>
    ELSE (IF Head(fields).key = k THEN <<Head(fields).value>> ELSE <<>>)
         \o ValuesOf(Tail(fields), k)

\* st.query_params as loaded from the query string of a URL: a multi-dict
QueryParamsOf(url) ==
    LET q  == FindFrom(url, "?", 1)
        qs == IF q = 0 THEN <<>> ELSE SubSeq(url, q + 1, Len(url))
        fs == ParseQsl(qs)
    IN [start_date |-> ValuesOf(fs, K_start_date),
        end_date   |-> ValuesOf(fs, K_end_date),
        series     |-> ValuesOf(fs, K_series),
        view_type  |-> ValuesOf(fs, K_view_type)]

\* st.query_params.get(key, default): the last value of a repeated key
QueryGet(values, default) ==
    IF values = <<>> THEN default ELSE Some(values[Len(values)])

(***************************************************************************)
(* The URL state codec.                                                    *)
(***************************************************************************)
\* lines 140-150: a date parameter is parsed only when it is a non-empty
\* string longer than 5 characters; a ValueError leaves the field None
ParseDateParam(opt) ==
    IF opt # None /\ opt[1] # <<>> /\ Len(opt[1]) > 5
    THEN Strptime(opt[1])
    ELSE None

\* lines 153-161: the values of 'series' that are catalog names once every
\* '+' is a space, appended in order
RECURSIVE FilterSeries(_)
FilterSeries(all_series) ==
    IF all_series = <<>> THEN <<>>
    ELSE LET decoded_series == ReplacePlus(Head(all_series))
         IN (IF InCatalog(decoded_series) THEN <<decoded_series>> ELSE <<>>)
            \o FilterSeries(Tail(all_series))

\* lines 163-165
ValidSeries(all_series) ==
    LET valid_series == FilterSeries(all_series)
    IN IF valid_series = <<>> THEN DEFAULT_SERIES ELSE valid_series

\* lines 135, 167-169
ValidViewType(values) ==
    LET v == QueryGet(values, Some(IndexValues))[1]
    IN IF v \in Range(VIEW_TYPES) THEN v ELSE IndexValues

\* a parse failure that escapes to the outer handler (lines 177-184) resets
\* every field: what get_url_params would do without its inner try/except
get_url_params_outer_except(qp) ==
    LET s == QueryGet(qp.start_date, None)
        e == QueryGet(qp.end_date, None)
        failed(o) == o # None /\ o[1] # <<>> /\ Len(o[1]) > 5 /\ Strptime(o[1]) = None
    IN IF failed(s) \/ failed(e)
       THEN [start_date |-> None, end_date |-> None,
             series |-> DEFAULT_SERIES, view_type |-> IndexValues]
       ELSE [start_date |-> ParseDateParam(s),
             end_date   |-> ParseDateParam(e),
             series     |-> ValidSeries(qp.series),
             view_type  |-> ValidViewType(qp.view_type)]

\* a decode that trusts view_type as given
get_url_params_unchecked_view(qp) ==
    [start_date |-> ParseDateParam(QueryGet(qp.start_date, None)),
     end_date   |-> ParseDateParam(QueryGet(qp.end_date, None)),
     series     |-> ValidSeries(qp.series),
     view_type  |-> QueryGet(qp.view_type, Some(IndexValues))[1]]

\* get_url_params(): the dict it returns.  No statement of its body raises
\* on string input other than strptime's ValueError, which is caught per
\* field, so the outer handler (lines 177-184) is never entered.
get_url_params(qp) ==
    [start_date |-> ParseDateParam(QueryGet(qp.start_date, None)),
     end_date   |-> ParseDateParam(QueryGet(qp.end_date, None)),
     series     |-> ValidSeries(qp.series),
     view_type  |-> ValidViewType(qp.view_type)]

\* generate_share_url(start_date, end_date, selected_series, view_type);
\* st.query_params holds no '_url', so base_url is the empty string
generate_share_url(sd, ed, sel, vt) ==
    LET base_url == <<>>
        params == << [key |-> K_start_date, values |-> <<Strftime(sd)>>],
                     [key |-> K_end_date,   values |-> <<Strftime(ed)>>],
                     [key |-> K_series,     values |-> sel],
                     [key |-> K_view_type,  values |-> <<vt>>] >>
    IN base_url \o <<"?">> \o Urlencode(params)

(***************************************************************************)
(* The widgets (lines 217-248).                                            *)
(***************************************************************************)
\* line 220: datetime.now() - timedelta(days=365*5) unless the URL gave a date
default_start(up, now) ==
    IF up.start_date # None THEN up.start_date[1] ELSE MinusDays(now, 365 * 5)

\* line 227
default_end(up, now) ==
    IF up.end_date # None THEN up.end_date[1] ELSE now

\* line 224: FRED CPI data starts from 1947
MIN_START == MkDate(1947, 1, 1)

\* st.date_input(label, value, min_value=...): a default value before
\* min_value is refused with an exception
DateInputRaises(value, min_value) == DateLT(value, min_value)

\* line 235
default_series(up) == IF up.series # <<>> THEN up.series ELSE DEFAULT_SERIES

(***************************************************************************)
(* Data frames, the change calculator and the chart builder.               *)
(* A frame is [index, value]: the dates (month numbers) and the            *)
(* observations.  A float is <<num, den>> (the exact quotient) and NaN is  *)
(* <<>>.                                                                   *)
(***************************************************************************)
NaN == <<>>

Ratio(num, den) == <<num, den>>

Frame(index, value) == [index |-> index, value |-> value]

\* pct_change with a lag of 11 positions
calculate_yoy_change_lag11(frame) ==
    Frame(frame.index,
          [i \in 1..Len(frame.value) |->
              IF i <= 11 THEN NaN
              ELSE Ratio((frame.value[i] - frame.value[i - 11]) * 100,
                         frame.value[i - 11])])

\* calculate_yoy_change(df): df['value'].pct_change(periods=12) * 100, the
\* change against the value 12 positions earlier, NaN where there is none
calculate_yoy_change(frame) ==
    Frame(frame.index,
          [i \in 1..Len(frame.value) |->
              IF i <= 12 THEN NaN
              ELSE Ratio((frame.value[i] - frame.value[i - 12]) * 100,
                         frame.value[i - 12])])

\* an insertion-ordered dict is a sequence of [key, value] with distinct keys
DictKeys(dict) == [i \in 1..Len(dict) |-> dict[i].key]

\* dict[k] = v: a new key is appended, an existing key keeps its position
DictSet(dict, k, v) ==
    IF \E i \in 1..Len(dict) : dict[i].key = k
    THEN [i \in 1..Len(dict) |->
             IF dict[i].key = k THEN [key |-> k, value |-> v] ELSE dict[i]]
    ELSE Append(dict, [key |-> k, value |-> v])

SuffixIndex == <<" ","(","I","n","d","e","x",")">>
SuffixYoY == <<" ","(","Y","o","Y"," ","%",")">>
TitleIndexValue == <<"I","n","d","e","x"," ","V","a","l","u","e">>
TitleYoY == <<"Y","e","a","r","-","o","v","e","r","-","Y","e","a","r"," ","C","h","a","n","g","e"," ","(","%",")">>

\* a palette lookup by the position alone, without the wrap-around
SeriesColorNoWrap(i) ==
    COLOR_PALETTE[IF i + 1 <= Len(COLOR_PALETTE) THEN i + 1 ELSE Len(COLOR_PALETTE)]

\* lines 69-70: the colour of the series at position i (from 0) of the keys
SeriesColor(i) == COLOR_PALETTE[(i % Len(COLOR_PALETTE)) + 1]

\* lines 74-84: the index traces; a Scatter without yaxis is on 'y'
IndexTraces(dict, vt) ==
    [i \in 1..Len(dict) |->
        [name  |-> dict[i].key \o SuffixIndex,
         x     |-> dict[i].value.index,
         y     |-> dict[i].value.value,
         width |-> 2,
         color |-> SeriesColor(i - 1),
         dash  |-> IF vt = Both THEN "dot" ELSE "solid",
         yaxis |-> "y"]]

\* the YoY traces all bound to the primary axis
YoYTracesOnPrimary(dict, vt) ==
    [i \in 1..Len(dict) |->
        [name  |-> dict[i].key \o SuffixYoY,
         x     |-> dict[i].value.index,
         y     |-> calculate_yoy_change(dict[i].value).value,
         width |-> 2,
         color |-> SeriesColor(i - 1),
         dash  |-> "solid",
         yaxis |-> "y"]]

\* lines 88-100: the year-over-year traces
YoYTraces(dict, vt) ==
    [i \in 1..Len(dict) |->
        [name  |-> dict[i].key \o SuffixYoY,
         x     |-> dict[i].value.index,
         y     |-> calculate_yoy_change(dict[i].value).value,
         width |-> 2,
         color |-> SeriesColor(i - 1),
         dash  |-> "solid",
         yaxis |-> IF vt = Both THEN "y2" ELSE "y"]]

\* lines 102-117: the axis titles; yaxis2 exists in mode 'Both' only
AxisLayout(vt) ==
    IF vt = Both
    THEN [yaxis_title  |-> TitleIndexValue,
          yaxis2       |-> Some([overlaying |-> "y", side |-> "right",
                                 title |-> TitleYoY])]
    ELSE [yaxis_title  |-> IF vt = IndexValues THEN TitleIndexValue ELSE TitleYoY,
          yaxis2       |-> None]

\* create_plot(df_dict, view_type): the figure's traces, in the order they
\* are added, and its layout
create_plot(dict, vt) ==
    [traces |-> (IF vt \in {IndexValues, Both} THEN IndexTraces(dict, vt) ELSE <<>>)
                \o (IF vt \in {YearOverYearChanges, Both}
                    THEN YoYTraces(dict, vt) ELSE <<>>),
     layout |-> AxisLayout(vt)]

\* lines 270-282: the columns of the raw-data table
RawTableColumns(dict, vt) ==
    DictKeys(dict)
    \o (IF vt \in {YearOverYearChanges, Both}
        THEN [i \in 1..Len(dict) |-> dict[i].key \o SuffixYoY]
        ELSE <<>>)

(***************************************************************************)
(* Query-parameter values used as inputs.                                  *)
(***************************************************************************)
S19000101 == <<"1","9","0","0","-","0","1","-","0","1">>
S20240601 == <<"2","0","2","4","-","0","6","-","0","1">>
S20200115 == <<"2","0","2","0","-","0","1","-","1","5">>
S20300101 == <<"2","0","3","0","-","0","1","-","0","1">>
S19470101 == <<"1","9","4","7","-","0","1","-","0","1">>
S20240229 == <<"2","0","2","4","-","0","2","-","2","9">>
S20201 == <<"2","0","2","0","1">>
S20200230 == <<"2","0","2","0","-","0","2","-","3","0">>
S202015 == <<"2","0","2","0","-","1","-","5">>
S20200115x == <<"2","0","2","0","-","0","1","-","1","5","x">>
S00000101 == <<"0","0","0","0","-","0","1","-","0","1">>
S20201301 == <<"2","0","2","0","-","1","3","-","0","1">>
S2020_01_5 == <<"2","0","2","0","-","0","1","-"," ","5">>
SAllPlusItems == <<"A","l","l","+","I","t","e","m","s">>
SBogus == <<"B","o","g","u","s">>
Sallitems == <<"a","l","l"," ","i","t","e","m","s">>
Sboth == <<"b","o","t","h">>

(***************************************************************************)
(* The render cycle: one run of the script, top to bottom.                 *)
(***************************************************************************)
\* the dates a user picks in a date widget
UserDates == {MkDate(2021, 6, 1), MkDate(1950, 3, 31)}

\* the selections a user makes in the multiselect: options are not repeated
UserSelections ==
    InjSeqUpTo({CPI_SERIES_keys[i] : i \in 1..MaxPool}, MaxSel)

\* the frame a successful fetch returns
SampleFrame == Frame([i \in 1..13 |-> i], [i \in 1..13 |-> 99 + i])

\* get_cpi_data(series_id, start_date, end_date): the DataFrame, or None
\* when fred.get_series raised (lines 53-58); nothing is raised to the caller
get_cpi_data(series_id, sd, ed) == {None, Some(SampleFrame)}

\* a date widget that offers every date, whatever its min_value
DateInputValuesNoMin(value, min_value) == {value} \cup UserDates

\* st.date_input(label, value, min_value=min_value): the default, or a date
\* the user picked, which the widget keeps at or after min_value
DateInputValues(value, min_value) ==
    {value} \cup {d \in UserDates : DateLE(min_value, d)}

\* a loop body that stores the result of a failed fetch too
StoreFetchedAlways(dict, series_name, result) ==
    DictSet(dict, series_name, IF result # None THEN result[1] ELSE Frame(<<>>, <<>>))

\* lines 262-263: a fetched frame is stored under its display name
StoreFetched(dict, series_name, result) ==
    IF result # None THEN DictSet(dict, series_name, result[1]) ELSE dict

\* lines 14-23: without the credential the script stops before anything else
Startup ==
    /\ pc = "startup"
    /\ IF fred_api_key
       THEN pc' = "get_url_params" /\ error' = error
       ELSE pc' = "done" /\ error' = "stopped"
    /\ UNCHANGED <<fred_api_key, today, query_params, url_params, start_date,
                   end_date, selected_series, view_type, share_url, fetch_i,
                   fetch_log, df_dict, fig, raw_table, df, yoy>>

\* line 215
GetUrlParams ==
    /\ pc = "get_url_params"
    /\ url_params' = Some(get_url_params(query_params))
    /\ pc' = "start_date_input"
    /\ UNCHANGED <<fred_api_key, today, query_params, start_date, end_date,
                   selected_series, view_type, share_url, fetch_i, fetch_log,
                   df_dict, fig, raw_table, df, yoy, error>>

\* lines 219-225
StartDateInput ==
    /\ pc = "start_date_input"
    /\ LET value == default_start(url_params[1], today)
       IN IF DateInputRaises(value, MIN_START)
          THEN /\ error' = "exception"
               /\ pc' = "done"
               /\ start_date' = start_date
          ELSE /\ \E v \in DateInputValues(value, MIN_START) : start_date' = Some(v)
               /\ pc' = "end_date_input"
               /\ error' = error
    /\ UNCHANGED <<fred_api_key, today, query_params, url_params, end_date,
                   selected_series, view_type, share_url, fetch_i, fetch_log,
                   df_dict, fig, raw_table, df, yoy>>

\* lines 226-232
EndDateInput ==
    /\ pc = "end_date_input"
    /\ LET value == default_end(url_params[1], today)
       IN IF DateInputRaises(value, start_date[1])
          THEN /\ error' = "exception"
               /\ pc' = "done"
               /\ end_date' = end_date
          ELSE /\ \E v \in DateInputValues(value, start_date[1]) : end_date' = Some(v)
               /\ pc' = "multiselect"
               /\ error' = error
    /\ UNCHANGED <<fred_api_key, today, query_params, url_params, start_date,
                   selected_series, view_type, share_url, fetch_i, fetch_log,
                   df_dict, fig, raw_table, df, yoy>>

\* lines 235-240: the default comes back unless the user changed the selection
SeriesMultiselect ==
    /\ pc = "multiselect"
    /\ \E sel \in {default_series(url_params[1])} \cup UserSelections :
           selected_series' = sel
    /\ pc' = "radio"
    /\ UNCHANGED <<fred_api_key, today, query_params, url_params, start_date,
                   end_date, view_type, share_url, fetch_i, fetch_log, df_dict,
                   fig, raw_table, df, yoy, error>>

\* lines 243-248: the default view is one of the three options, so index()
\* finds it; the user may have picked another option
ViewRadio ==
    /\ pc = "radio"
    /\ url_params[1].view_type \in Range(VIEW_TYPES)
    /\ \E vt \in Range(VIEW_TYPES) : view_type' = vt
    /\ pc' = "share"
    /\ UNCHANGED <<fred_api_key, today, query_params, url_params, start_date,
                   end_date, selected_series, share_url, fetch_i, fetch_log,
                   df_dict, fig, raw_table, df, yoy, error>>

\* lines 251-254: the button was clicked in this run, or not
ShareButton ==
    /\ pc = "share"
    /\ \E clicked \in BOOLEAN :
           share_url' = IF clicked
                        THEN Some(generate_share_url(start_date[1], end_date[1],
                                                     selected_series, view_type))
                        ELSE None
    /\ pc' = "fetch"
    /\ UNCHANGED <<fred_api_key, today, query_params, url_params, start_date,
                   end_date, selected_series, view_type, fetch_i, fetch_log,
                   df_dict, fig, raw_table, df, yoy, error>>

\* lines 259-263: one iteration of the fetch loop
FetchSeries ==
    /\ pc = "fetch"
    /\ fetch_i <= Len(selected_series)
    /\ LET series_name == selected_series[fetch_i]
           series_id   == CPI_SERIES(series_name)
       IN \E result \in get_cpi_data(series_id, start_date[1], end_date[1]) :
              /\ fetch_log' = Append(fetch_log,
                                     [series_id  |-> series_id,
                                      start_date |-> start_date[1],
                                      end_date   |-> end_date[1],
                                      ok         |-> result # None])
              /\ df_dict' = StoreFetched(df_dict, series_name, result)
    /\ fetch_i' = fetch_i + 1
    /\ UNCHANGED <<pc, fred_api_key, today, query_params, url_params,
                   start_date, end_date, selected_series, view_type, share_url,
                   fig, raw_table, df, yoy, error>>

\* lines 257, 265-282: after the loop the chart is built when df_dict is not
\* empty, and the raw-data table when its checkbox is ticked
BuildChart ==
    /\ pc = "fetch"
    /\ fetch_i > Len(selected_series)
    /\ IF selected_series # <<>> /\ df_dict # <<>>
       THEN /\ fig' = Some(create_plot(df_dict, view_type))
            /\ \E show \in BOOLEAN :
                   raw_table' = IF show
                                THEN Some(RawTableColumns(df_dict, view_type))
                                ELSE None
       ELSE fig' = fig /\ raw_table' = raw_table
    /\ pc' = "done"
    /\ UNCHANGED <<fred_api_key, today, query_params, url_params, start_date,
                   end_date, selected_series, view_type, share_url, fetch_i,
                   fetch_log, df_dict, df, yoy, error>>

Q(sd, ed, se, vt) ==
    [start_date |-> sd, end_date |-> ed, series |-> se, view_type |-> vt]

\* the query strings the render cycle is started with
RenderQueries ==
    { Q(<<>>, <<>>, <<>>, <<>>),
      Q(<<S19000101>>, <<>>, <<>>, <<>>),
      Q(<<S20240601>>, <<S20200115>>, <<>>, <<>>),
      Q(<<S20300101>>, <<>>, <<>>, <<>>),
      Q(<<>>, <<S19470101>>, <<>>, <<>>),
      Q(<<S20200115>>, <<S20240229>>, <<SAllPlusItems, SBogus>>, <<Both>>),
      Q(<<>>, <<>>, <<Housing, Housing>>, <<YearOverYearChanges>>),
      Q(<<S20201>>, <<S20200230>>, <<SBogus>>, <<Sboth>>) }

Todays == {MkDate(2025, 11, 6)}

Blank ==
    /\ url_params = None
    /\ start_date = None
    /\ end_date = None
    /\ selected_series = <<>>
    /\ view_type = <<>>
    /\ share_url = None
    /\ fetch_i = 1
    /\ fetch_log = <<>>
    /\ df_dict = <<>>
    /\ fig = None
    /\ raw_table = None
    /\ df = Frame(<<>>, <<>>)
    /\ yoy = None
    /\ error = "none"

Init ==
    /\ pc = "startup"
    /\ fred_api_key \in BOOLEAN
    /\ today \in Todays
    /\ query_params \in RenderQueries
    /\ Blank

Next ==
    \/ Startup
    \/ GetUrlParams
    \/ StartDateInput
    \/ EndDateInput
    \/ SeriesMultiselect
    \/ ViewRadio
    \/ ShareButton
    \/ FetchSeries
    \/ BuildChart

Spec == Init /\ [][Next]_vars

(***************************************************************************)
(* The codec on its own: a view is shared and the link opened again, or a  *)
(* URL with arbitrary parameters is opened.                                *)
(***************************************************************************)
\* the dates of a view: what the date widgets can hold
ViewDates == {MkDate(1947, 1, 1), MkDate(2020, 2, 29), MkDate(2025, 11, 6)}

ViewSelections == InjSeqUpTo(Range(CPI_SERIES_keys), MaxSel)

StartParamLists ==
    { <<>>, <<S20200115>>, <<S202015>>, <<S20200230>>, <<S20201>>,
      <<S20200115x>>, <<S00000101>>, <<S20201301>>, <<S2020_01_5>>, << <<>> >>,
      <<S20200230, S20240229>>, <<S20240229, S20201>> }

EndParamLists ==
    { <<>>, <<S20240229>>, <<S202015>>, <<S20200230>>, <<SBogus>>,
      <<S20201, S20200115>> }

SeriesParamValues == {SAllPlusItems, AllItems, SBogus, Sallitems, Housing}

SeriesParamLists == SeqUpTo(SeriesParamValues, MaxSeriesParams)

ViewParamLists ==
    { <<>>, <<Both>>, <<Sboth>>, <<YearOverYearChanges>>, <<Both, Sboth>>,
      <<SBogus, Both>> }

GarbageQueries ==
    { Q(sd, ed, se, vt) : sd \in StartParamLists, ed \in EndParamLists,
                          se \in SeriesParamLists, vt \in ViewParamLists }

InitCodec ==
    /\ fred_api_key = TRUE
    /\ today \in Todays
    /\ url_params = None
    /\ share_url = None
    /\ fetch_i = 1
    /\ fetch_log = <<>>
    /\ df_dict = <<>>
    /\ fig = None
    /\ raw_table = None
    /\ df = Frame(<<>>, <<>>)
    /\ yoy = None
    /\ error = "none"
    /\ \/ /\ pc = "share_view"
          /\ query_params = Q(<<>>, <<>>, <<>>, <<>>)
          /\ \E sd \in ViewDates, ed \in ViewDates :
                 /\ DateLE(sd, ed)
                 /\ start_date = Some(sd)
                 /\ end_date = Some(ed)
          /\ selected_series \in ViewSelections
          /\ view_type \in Range(VIEW_TYPES)
       \/ /\ pc = "open_url"
          /\ query_params \in GarbageQueries
          /\ start_date = None
          /\ end_date = None
          /\ selected_series = <<>>
          /\ view_type = <<>>

\* lines 251-252: the share button of a view
ShareView ==
    /\ pc = "share_view"
    /\ share_url' = Some(generate_share_url(start_date[1], end_date[1],
                                            selected_series, view_type))
    /\ pc' = "follow_link"
    /\ UNCHANGED <<fred_api_key, today, query_params, url_params, start_date,
                   end_date, selected_series, view_type, fetch_i, fetch_log,
                   df_dict, fig, raw_table, df, yoy, error>>

\* the link is opened: st.query_params holds the parsed query string
FollowLink ==
    /\ pc = "follow_link"
    /\ query_params' = QueryParamsOf(share_url[1])
    /\ pc' = "open_url"
    /\ UNCHANGED <<fred_api_key, today, url_params, start_date, end_date,
                   selected_series, view_type, share_url, fetch_i, fetch_log,
                   df_dict, fig, raw_table, df, yoy, error>>

\* line 215, on the opened URL
DecodeUrl ==
    /\ pc = "open_url"
    /\ url_params' = Some(get_url_params(query_params))
    /\ pc' = "decoded"
    /\ UNCHANGED <<fred_api_key, today, query_params, start_date, end_date,
                   selected_series, view_type, share_url, fetch_i, fetch_log,
                   df_dict, fig, raw_table, df, yoy, error>>

NextCodec == ShareView \/ FollowLink \/ DecodeUrl

SpecCodec == InitCodec /\ [][NextCodec]_vars

(***************************************************************************)
(* The chart builder on its own: create_plot on any ordered mapping.       *)
(***************************************************************************)
ExtraA == <<"E","x","t","r","a"," ","A">>
ExtraB == <<"E","x","t","r","a"," ","B">>

\* the names a mapping is keyed by: the catalog and two names outside it,
\* so that a mapping can be longer than the palette
ChartNames == CPI_SERIES_keys \o <<ExtraA, ExtraB>>

\* the key sequences: up to MaxKeys consecutive names, from any first name
ChartKeySeqs ==
    LET n == Len(ChartNames)
        m == IF MaxKeys < n THEN MaxKeys ELSE n
    IN { [i \in 1..len |-> ChartNames[((first + i - 2) % n) + 1]] :
             first \in 1..n, len \in 0..m }

\* the frame of the series at position p of the mapping
ChartFrame(p) == Frame([i \in 1..13 |-> i], [i \in 1..13 |-> 100 + p + i * i])

ChartInputs ==
    { [i \in 1..Len(ks) |-> [key |-> ks[i], value |-> ChartFrame(i)]] :
          ks \in ChartKeySeqs }

InitChart ==
    /\ pc = "chart"
    /\ fred_api_key = TRUE
    /\ today \in Todays
    /\ query_params = Q(<<>>, <<>>, <<>>, <<>>)
    /\ url_params = None
    /\ start_date = None
    /\ end_date = None
    /\ selected_series = <<>>
    /\ view_type \in Range(VIEW_TYPES)
    /\ share_url = None
    /\ fetch_i = 1
    /\ fetch_log = <<>>
    /\ df_dict \in ChartInputs
    /\ fig = None
    /\ raw_table = None
    /\ df = Frame(<<>>, <<>>)
    /\ yoy = None
    /\ error = "none"

\* line 266
CreatePlot ==
    /\ pc = "chart"
    /\ fig' = Some(create_plot(df_dict, view_type))
    /\ pc' = "chart_done"
    /\ UNCHANGED <<fred_api_key, today, query_params, url_params, start_date,
                   end_date, selected_series, view_type, share_url, fetch_i,
                   fetch_log, df_dict, raw_table, df, yoy, error>>

NextChart == CreatePlot

SpecChart == InitChart /\ [][NextChart]_vars

(***************************************************************************)
(* The change calculator on its own: a series is observed value by value   *)
(* and calculate_yoy_change applied to it.                                 *)
(***************************************************************************)
\* the index values observed
ObsValues == {100, 125}

\* the positions after which a month may be missing from the series
GapAfter == {2}

InitYoY ==
    /\ pc = "observe"
    /\ fred_api_key = TRUE
    /\ today \in Todays
    /\ query_params = Q(<<>>, <<>>, <<>>, <<>>)
    /\ Blank

\* fred.get_series delivers one more observation, a month or (after a gap)
\* two months after the last
Observe ==
    /\ pc = "observe"
    /\ Len(df.value) < MaxObs
    /\ \E v \in ObsValues, step \in {1, 2} :
           /\ step = 2 => Len(df.value) \in GapAfter
           /\ LET last == IF df.index = <<>> THEN 0 ELSE df.index[Len(df.index)]
              IN df' = Frame(Append(df.index, last + step), Append(df.value, v))
    /\ UNCHANGED <<pc, fred_api_key, today, query_params, url_params,
                   start_date, end_date, selected_series, view_type, share_url,
                   fetch_i, fetch_log, df_dict, fig, raw_table, yoy, error>>

\* lines 89, 279
CalculateYoY ==
    /\ pc = "observe"
    /\ yoy' = Some(calculate_yoy_change(df))
    /\ pc' = "yoy_done"
    /\ UNCHANGED <<fred_api_key, today, query_params, url_params, start_date,
                   end_date, selected_series, view_type, share_url, fetch_i,
                   fetch_log, df_dict, fig, raw_table, df, error>>

NextYoY == Observe \/ CalculateYoY

SpecYoY == InitYoY /\ [][NextYoY]_vars

(***************************************************************************)
(* Properties.                                                             *)
(***************************************************************************)
\* the first occurrences of the elements of s, in order
RECURSIVE Dedupe(_)
Dedupe(s) ==
    IF s = <<>> THEN <<>>
    ELSE LET front == Dedupe(SubSeq(s, 1, Len(s) - 1))
             last  == s[Len(s)]
         IN IF last \in Range(front) THEN front ELSE Append(front, last)

IsDate(dt) ==
    /\ dt.y \in 1..9999
    /\ dt.m \in 1..12
    /\ dt.d \in 1..DaysInMonth(dt.y, dt.m)

IsOptDate(o) == o = None \/ (Len(o) = 1 /\ IsDate(o[1]))

\* the last value of a query parameter, as st.query_params.get returns it
LastOf(values) == values[Len(values)]

\* the texts that strptime's '%Y-%m-%d' reads as the date dt: the month
\* and the day with or without the leading zero, the day also with a
\* leading space
Renderings(dt) ==
    LET months == {Pad2(dt.m)} \cup (IF dt.m < 10 THEN {<<DigitChar(dt.m)>>} ELSE {})
        days   == {Pad2(dt.d)}
                  \cup (IF dt.d < 10
                        THEN {<<DigitChar(dt.d)>>, <<" ", DigitChar(dt.d)>>}
                        ELSE {})
    IN {Pad4(dt.y) \o <<"-">> \o mm \o <<"-">> \o dd : mm \in months, dd \in days}

\* the dates the date parameters of the inputs can denote
RefDates ==
    ViewDates \cup {MkDate(2020, 1, 15), MkDate(2020, 1, 5), MkDate(2024, 2, 29)}

\* the date a date parameter denotes, by the claim's rule: present, longer
\* than 5 characters and a YYYY-MM-DD text of a date; None otherwise
ExpectedDate(values) ==
    IF values # <<>>
       /\ Len(LastOf(values)) > 5
       /\ \E dt \in RefDates : LastOf(values) \in Renderings(dt)
    THEN Some(CHOOSE dt \in RefDates : LastOf(values) \in Renderings(dt))
    ELSE None

\* the values of 'series' that are catalog names once '+' is a space
Survivors(values) ==
    SelectSeq([i \in 1..Len(values) |-> ReplacePlus(values[i])], InCatalog)

Decoded == url_params[1]

RoundTrip == url_params # None /\ share_url # None

\* C1 as stated: sharing a view and opening the link decodes to the same
\* view, for every selection of catalog names and every view mode
C1_RoundTrip ==
    RoundTrip =>
        Decoded = [start_date |-> start_date, end_date |-> end_date,
                   series |-> selected_series, view_type |-> view_type]

\* C1 amended: the round trip reproduces the view when the selection is not
\* empty; an empty selection comes back as the default pair, the other
\* fields unchanged
C1_RoundTripNonEmpty ==
    RoundTrip =>
        /\ Decoded.start_date = start_date
        /\ Decoded.end_date = end_date
        /\ Decoded.view_type = view_type
        /\ Decoded.series =
               IF selected_series = <<>> THEN DEFAULT_SERIES ELSE selected_series

C1_Witness ==
    /\ RoundTrip
    /\ selected_series = <<AllItemsLessFoodAndEnergy, AllItems>>
    /\ view_type = YearOverYearChanges
    /\ start_date = Some(MkDate(2020, 2, 29))
    /\ Decoded.series = selected_series

ViewTypeDecoded ==
    /\ Decoded.view_type \in Range(VIEW_TYPES)
    /\ Decoded.view_type =
           IF query_params.view_type # <<>>
              /\ LastOf(query_params.view_type) \in {IndexValues, YearOverYearChanges, Both}
           THEN LastOf(query_params.view_type)
           ELSE IndexValues

SeriesDecoded ==
    /\ Decoded.series # <<>>
    /\ \A i \in 1..Len(Decoded.series) : Decoded.series[i] \in Range(CPI_SERIES_keys)

\* C2 as stated: decode returns without raising and start_date and
\* end_date are dates, series a non-empty selection of catalog names,
\* view_mode one of the three labels
C2_DecodeTotal ==
    url_params # None =>
        /\ error = "none"
        /\ Decoded.start_date # None /\ IsDate(Decoded.start_date[1])
        /\ Decoded.end_date # None /\ IsDate(Decoded.end_date[1])
        /\ SeriesDecoded
        /\ ViewTypeDecoded

\* C2 amended: decode returns without raising; start_date and end_date are
\* each a date or None, and the widget defaults turn None into a date;
\* series and view_mode are as stated
C2_DecodeTotalOptionalDates ==
    url_params # None =>
        /\ error = "none"
        /\ IsOptDate(Decoded.start_date)
        /\ IsOptDate(Decoded.end_date)
        /\ IsDate(default_start(Decoded, today))
        /\ IsDate(default_end(Decoded, today))
        /\ SeriesDecoded
        /\ ViewTypeDecoded

C2_Witness ==
    /\ url_params # None
    /\ query_params = Q(<<S20200230>>, <<SBogus>>, <<SBogus, Sallitems>>, <<Both, Sboth>>)
    /\ Decoded = [start_date |-> None, end_date |-> None,
                  series |-> DEFAULT_SERIES, view_type |-> IndexValues]

\* C3: the decoded selection is the catalog names among the 'series'
\* values ('+' read as a space), in order of first appearance and without
\* repetition, and the default pair exactly when no value survives
C3_SeriesFilter ==
    url_params # None =>
        Decoded.series =
            IF Survivors(query_params.series) = <<>>
            THEN DEFAULT_SERIES
            ELSE Dedupe(Survivors(query_params.series))

FetchedOk ==
    LET ok == {i \in 1..Len(fetch_log) : fetch_log[i].ok}
        F[i \in 0..Len(fetch_log)] ==
            IF i = 0 THEN <<>>
            ELSE IF i \in ok THEN Append(F[i - 1], selected_series[i]) ELSE F[i - 1]
    IN F[Len(fetch_log)]

\* C5: each position of the selection is fetched once, in order, whatever
\* failed before it; no failure raises or is retried; df_dict holds exactly
\* the series whose fetch succeeded, in selection order; the chart is built
\* exactly when one succeeded
C5_FetchRecovery ==
    /\ Len(fetch_log) <= Len(selected_series)
    /\ pc = "fetch" => Len(fetch_log) = fetch_i - 1 /\ error = "none"
    /\ \A i \in 1..Len(fetch_log) :
           fetch_log[i].series_id = CPI_SERIES(selected_series[i])
    /\ DictKeys(df_dict) = Dedupe(FetchedOk)
    /\ (pc = "done" /\ error = "none") =>
           /\ Len(fetch_log) = Len(selected_series)
           /\ (fig # None) <=> (\E i \in 1..Len(fetch_log) : fetch_log[i].ok)
           /\ fig # None =>
                  Len(fig[1].traces) = Len(df_dict) * (IF view_type = Both THEN 2 ELSE 1)

C5_Witness ==
    /\ pc = "done"
    /\ selected_series = <<AllItemsLessFoodAndEnergy, AllItems>>
    /\ Len(fetch_log) = 2
    /\ ~fetch_log[1].ok
    /\ fetch_log[2].ok
    /\ DictKeys(df_dict) = <<AllItems>>
    /\ fig # None

FigIs == fig[1]

\* C6: in mode 'Both' the figure has 2n traces: first the n index traces,
\* '<series> (Index)' on the primary axis titled 'Index Value', then the n
\* YoY traces, '<series> (YoY %)' on the secondary, right axis titled
\* 'Year-over-Year Change (%)', each group in the order of the mapping
C6_BothTraces ==
    (pc = "chart_done" /\ view_type = Both) =>
        LET n == Len(df_dict)
        IN /\ Len(FigIs.traces) = 2 * n
           /\ \A i \in 1..n :
                  /\ FigIs.traces[i].name = df_dict[i].key \o <<" ","(","I","n","d","e","x",")">>
                  /\ FigIs.traces[i].yaxis = "y"
                  /\ FigIs.traces[n + i].name = df_dict[i].key \o <<" ","(","Y","o","Y"," ","%",")">>
                  /\ FigIs.traces[n + i].yaxis = "y2"
           /\ FigIs.layout.yaxis_title = TitleIndexValue
           /\ FigIs.layout.yaxis2 # None
           /\ FigIs.layout.yaxis2[1].title = TitleYoY
           /\ FigIs.layout.yaxis2[1].side = "right"

C6_Witness ==
    /\ pc = "chart_done"
    /\ view_type = Both
    /\ Len(df_dict) = 3
    /\ Len(FigIs.traces) = 6
    /\ FigIs.traces[4].yaxis = "y2"

\* C7: every trace of the series at position p (from 0) of the mapping has
\* colour COLOR_PALETTE[p mod 9], in every view mode; in mode 'Both' the two
\* traces of a series have the same colour
C7_ColorByPosition ==
    pc = "chart_done" =>
        LET n == Len(df_dict)
        IN /\ Len(FigIs.traces) = (IF view_type = Both THEN 2 * n ELSE n)
           /\ \A t \in 1..Len(FigIs.traces) :
                  LET p == (t - 1) % n
                  IN FigIs.traces[t].color = COLOR_PALETTE[(p % 9) + 1]
           /\ view_type = Both =>
                  \A i \in 1..n : FigIs.traces[i].color = FigIs.traces[n + i].color

C7_Witness ==
    /\ pc = "chart_done"
    /\ Len(df_dict) = 10
    /\ view_type = Both
    /\ FigIs.traces[10].color = "#1f77b4"
    /\ FigIs.traces[20].color = "#1f77b4"
    /\ FigIs.traces[9].color = "#bcbd22"

\* C8: the result has the length and the dates of the input; its first 12
\* positions are missing; every later position i is
\* (value[i] / value[i-12] - 1) * 100, 12 positions back whatever the dates
C8_YoY ==
    pc = "yoy_done" =>
        LET r == yoy[1]
            n == Len(df.value)
        IN /\ Len(r.value) = n
           /\ r.index = df.index
           /\ \A i \in 1..n :
                  IF i <= 12
                  THEN r.value[i] = NaN
                  ELSE /\ r.value[i] # NaN
                       /\ r.value[i][2] # 0
                       /\ r.value[i][1] * df.value[i - 12]
                              = (df.value[i] - df.value[i - 12]) * 100 * r.value[i][2]

C8_Witness ==
    /\ pc = "yoy_done"
    /\ Len(df.value) = 14
    /\ df.index[14] = 15
    /\ df.value[1] = 100 /\ df.value[2] = 125 /\ df.value[13] = 125 /\ df.value[14] = 100
    /\ yoy[1].value[12] = NaN
    /\ yoy[1].value[13] = <<2500, 100>>
    /\ yoy[1].value[14] = <<-2500, 125>>

\* C9: without the credential the script stops before decoding, widgets and
\* fetches; with it, no run of the render cycle ends in an unhandled error
C9_NoCrash ==
    /\ (~fred_api_key /\ pc # "startup") =>
           /\ error = "stopped"
           /\ pc = "done"
           /\ url_params = None /\ start_date = None /\ fetch_log = <<>> /\ fig = None
    /\ fred_api_key => error = "none"

\* C10: every call of get_cpi_data has the catalog identifier of the
\* selected display name at that position and start_date <= end_date
C10_FetchPreconditions ==
    \A i \in 1..Len(fetch_log) :
        /\ selected_series[i] \in Range(CPI_SERIES_keys)
        /\ fetch_log[i].series_id \in Range(CPI_SERIES_ids)
        /\ \E k \in 1..Len(CPI_SERIES_keys) :
               /\ CPI_SERIES_keys[k] = selected_series[i]
               /\ CPI_SERIES_ids[k] = fetch_log[i].series_id
        /\ DateLE(fetch_log[i].start_date, fetch_log[i].end_date)
        /\ fetch_log[i].start_date = start_date[1]
        /\ fetch_log[i].end_date = end_date[1]

C10_Witness ==
    /\ Len(fetch_log) = 2
    /\ query_params.start_date = <<S20200115>>
    /\ start_date = Some(MkDate(2021, 6, 1))
    /\ end_date = Some(MkDate(2024, 2, 29))
    /\ fetch_log[2].series_id = "CPILFESL"

====
